---------------------------- MODULE Spec2Model ----------------------------
(***************************************************************************)
(* A model of aleph_request.py: the read-through file cache get_marc21,    *)
(* the decoder wrapper get_records and the MARC21 field extractors.        *)
(*                                                                         *)
(* The cache is modelled at the granularity of its file-system steps, one  *)
(* action per statement of get_marc21 that touches the directory, the      *)
(* cache file or the remote catalog.  Spec runs one invocation at a time,  *)
(* SpecConc lets two invocations interleave.  The interpreter is the one   *)
(* the module was written for (Python 2, POSIX): bytes is str, and a file  *)
(* opened in mode 'w' is a C stdio text stream.                            *)
(***************************************************************************)
EXTENDS Integers, Sequences, FiniteSets, TLC

VARIABLES
    dirExists,      \* os.path.exists(cache_path)
    fs,             \* the regular files under cache_path: path -> bytes
    pc,             \* position of each invocation in get_marc21 / its caller
    sys_id,         \* the argument of each running invocation
    marc21,         \* the local variable marc21 of each invocation
    file_exists,    \* the local variable file_exists of each invocation
    woff,           \* bytes the invocation's write handle has put in the file
    result,         \* how the last call of each process ended
    firstReturned,  \* history: identifier -> bytes of its first normal return
    rec,            \* the decoded record handed to the extractors
    out             \* the last extractor applied and what it returned

cacheVars ==
    <<dirExists, fs, pc, sys_id, marc21, file_exists, woff, result, firstReturned>>
extractVars == <<rec, out>>
vars ==
    <<dirExists, fs, pc, sys_id, marc21, file_exists, woff, result, firstReturned,
      rec, out>>

-----------------------------------------------------------------------------
(* Bytes, identifiers and the remote catalog *)

Procs == {"p1", "p2"}

Ids == {"000123456", "000654321", "999999999"}

\* The result set conn.search(query) yields for an identifier: the records
\* the catalog holds for it, in order (none for an unknown identifier).
Catalog(i) ==
    CASE i = "000123456" -> << <<48, 10>>, <<49>> >>
      [] i = "000654321" -> << <<50>> >>
      [] OTHER           -> << >>

cache_path == "marc_cache"

file_path(i) == <<cache_path, i, ".marc">>

\* A bug: the test looks at a path that is never a regular file.
os_path_isfile_never(path) == FALSE

os_path_isfile(path) == path \in DOMAIN fs

\* A stdio text stream writes every "\n" as os.linesep; "\n" on POSIX.
os_linesep == <<10>>

RECURSIVE text_mode(_)
text_mode(data) ==
    IF data = <<>> THEN <<>>
    ELSE (IF Head(data) = 10 THEN os_linesep ELSE <<Head(data)>>)
         \o text_mode(Tail(data))

Max(a, b) == IF a >= b THEN a ELSE b

\* The file content after `chunk` is written at offset `off` of a file that
\* holds `old`: a gap past the end of the file reads as zero bytes.
pwrite(old, off, chunk) ==
    IF chunk = <<>> THEN old
    ELSE [k \in 1..Max(Len(old), off + Len(chunk)) |->
            IF k > off /\ k <= off + Len(chunk) THEN chunk[k - off]
            ELSE IF k <= Len(old) THEN old[k]
            ELSE 0]

-----------------------------------------------------------------------------
(* get_marc21 and get_records, statement by statement *)

NoResult == [kind |-> "none"]

\* `return marc21`
return_marc21(data) == [kind |-> "return", value |-> data]

\* `except Exception as e: ... exit(1)`
except_get_marc21(e) ==
    [kind |-> "exit", status |-> 1, exc |-> e, in |-> "get_marc21"]

\* `return next(reader)`
return_record(data) == [kind |-> "record", value |-> data]

\* A bug: the decoder's handler exits with the status of get_marc21.
except_get_records_status1(e) ==
    [kind |-> "exit", status |-> 1, exc |-> e, in |-> "get_records"]

\* `except Exception as e: ... exit(2)`
except_get_records(e) ==
    [kind |-> "exit", status |-> 2, exc |-> e, in |-> "get_records"]

\* An exception raised inside the try block of get_marc21: the handler ends
\* the process, leaving the file system as the raising statement left it.
Raise(p, e) ==
    /\ result' = [result EXCEPT ![p] = except_get_marc21(e)]
    /\ pc' = [pc EXCEPT ![p] = "idle"]

Goto(p, label) ==
    /\ pc' = [pc EXCEPT ![p] = label]
    /\ result' = result

\* A process calls get_marc21(i).
Call(p, i) ==
    /\ pc[p] = "idle"
    /\ pc' = [pc EXCEPT ![p] = "exists"]
    /\ sys_id' = [sys_id EXCEPT ![p] = i]
    /\ marc21' = [marc21 EXCEPT ![p] = <<>>]
    /\ file_exists' = [file_exists EXCEPT ![p] = FALSE]
    /\ woff' = [woff EXCEPT ![p] = 0]
    /\ result' = [result EXCEPT ![p] = NoResult]
    /\ UNCHANGED <<dirExists, fs, firstReturned>>

\* `if not os.path.exists(cache_path):`
Exists(p) ==
    /\ pc[p] = "exists"
    /\ Goto(p, IF dirExists THEN "isfile" ELSE "makedirs")
    /\ UNCHANGED <<dirExists, fs, sys_id, marc21, woff, firstReturned, file_exists>>

\* `os.makedirs(cache_path)`: raises OSError when the directory exists by
\* now, or when the directory cannot be created.
Makedirs(p) ==
    /\ pc[p] = "makedirs"
    /\ \/ /\ ~dirExists
          /\ dirExists' = TRUE
          /\ Goto(p, "isfile")
       \/ /\ dirExists' = dirExists
          /\ Raise(p, "OSError")
    /\ UNCHANGED <<fs, sys_id, marc21, woff, firstReturned, file_exists>>

\* `file_exists = os.path.isfile(file_path)` and `if file_exists:`
Isfile(p) ==
    /\ pc[p] = "isfile"
    /\ file_exists' =
          [file_exists EXCEPT ![p] = os_path_isfile(file_path(sys_id[p]))]
    /\ Goto(p, IF file_exists'[p] THEN "open_rb" ELSE "connect")
    /\ UNCHANGED <<dirExists, fs, sys_id, marc21, woff, firstReturned>>

\* `marc_file = codecs.open(file_path, 'rb')`
OpenRb(p) ==
    /\ pc[p] = "open_rb"
    /\ \/ /\ file_path(sys_id[p]) \in DOMAIN fs
          /\ Goto(p, "read")
       \/ Raise(p, "IOError")
    /\ UNCHANGED <<dirExists, fs, sys_id, marc21, woff, firstReturned, file_exists>>

\* `marc21 = marc_file.read()`
Read(p) ==
    /\ pc[p] = "read"
    /\ \/ /\ marc21' = [marc21 EXCEPT ![p] = fs[file_path(sys_id[p])]]
          /\ Goto(p, "close_rb")
       \/ /\ marc21' = marc21
          /\ Raise(p, "IOError")
    /\ UNCHANGED <<dirExists, fs, sys_id, woff, firstReturned, file_exists>>

\* `marc_file.close()` of the read handle
CloseRb(p) ==
    /\ pc[p] = "close_rb"
    /\ Goto(p, "return")
    /\ UNCHANGED <<dirExists, fs, sys_id, marc21, woff, firstReturned, file_exists>>

\* `conn = zoom.Connection('aleph.unibas.ch', 9909)`: the remote may be
\* unreachable.
Connect(p) ==
    /\ pc[p] = "connect"
    /\ \/ Goto(p, "search")
       \/ Raise(p, "ZoomError")
    /\ UNCHANGED <<dirExists, fs, sys_id, marc21, woff, firstReturned, file_exists>>

\* `res = conn.search(query)` and `marc21 = bytes(res[0].data)`: the query
\* may fail, and res[0] raises IndexError on an empty result set.
\* A bug: the last hit is taken instead of the first.
last_result(res) == res[Len(res)]

first_result(res) == res[1]

Search(p) ==
    /\ pc[p] = "search"
    /\ \/ /\ Catalog(sys_id[p]) # <<>>
          /\ marc21' = [marc21 EXCEPT ![p] = first_result(Catalog(sys_id[p]))]
          /\ Goto(p, "open_w")
       \/ /\ Catalog(sys_id[p]) = <<>>
          /\ marc21' = marc21
          /\ Raise(p, "IndexError")
       \/ /\ marc21' = marc21
          /\ Raise(p, "ZoomError")
    /\ UNCHANGED <<dirExists, fs, sys_id, woff, firstReturned, file_exists>>

\* `marc_file = codecs.open(file_path, 'w')`: creates the file, or truncates
\* the one that exists by now.
open_w(files, path) == [x \in DOMAIN files \cup {path} |->
                            IF x = path THEN <<>> ELSE files[x]]

OpenW(p) ==
    /\ pc[p] = "open_w"
    /\ \/ /\ fs' = open_w(fs, file_path(sys_id[p]))
          /\ Goto(p, "write")
       \/ /\ fs' = fs
          /\ Raise(p, "IOError")
    /\ UNCHANGED <<dirExists, sys_id, marc21, woff, firstReturned, file_exists>>

\* `marc_file.write(marc21)`: the stream is buffered, so any number of the
\* bytes may reach the file now and the rest when the stream is closed; the
\* write raises when the device fails before all bytes are taken.
write_data(p) == text_mode(marc21[p])

flush(files, path, off, data, n) ==
    [files EXCEPT ![path] = pwrite(files[path], off, SubSeq(data, off + 1, n))]

Write(p) ==
    /\ pc[p] = "write"
    /\ \E n \in 0..Len(write_data(p)) :
          /\ fs' = flush(fs, file_path(sys_id[p]), 0, write_data(p), n)
          /\ woff' = [woff EXCEPT ![p] = n]
          /\ \/ Goto(p, "close_w")
             \/ /\ n < Len(write_data(p))
                /\ Raise(p, "IOError")
    /\ UNCHANGED <<dirExists, sys_id, marc21, firstReturned, file_exists>>

\* `marc_file.close()` of the write handle: the buffered rest is written at
\* the handle's offset, or the flush fails.
CloseW(p) ==
    /\ pc[p] = "close_w"
    /\ \/ /\ fs' = flush(fs, file_path(sys_id[p]), woff[p], write_data(p),
                         Len(write_data(p)))
          /\ woff' = [woff EXCEPT ![p] = Len(write_data(p))]
          /\ Goto(p, "return")
       \/ /\ woff[p] < Len(write_data(p))
          /\ fs' = fs
          /\ woff' = woff
          /\ Raise(p, "IOError")
    /\ UNCHANGED <<dirExists, sys_id, marc21, firstReturned, file_exists>>

\* `return marc21`
note_return(hist, i, data) ==
    IF i \in DOMAIN hist THEN hist
    ELSE [x \in DOMAIN hist \cup {i} |-> IF x = i THEN data ELSE hist[x]]

Return(p) ==
    /\ pc[p] = "return"
    /\ result' = [result EXCEPT ![p] = return_marc21(marc21[p])]
    /\ pc' = [pc EXCEPT ![p] = "returned"]
    /\ firstReturned' = note_return(firstReturned, sys_id[p], marc21[p])
    /\ UNCHANGED <<dirExists, fs, sys_id, marc21, woff, file_exists>>

\* get_records(marc21) on the bytes get_marc21 returned: next(reader) raises
\* StopIteration when the bytes hold no record, and the reader raises on
\* bytes it cannot decode.
GetRecords(p) ==
    /\ pc[p] = "returned"
    /\ \/ /\ result[p].value # <<>>
          /\ result' = [result EXCEPT ![p] = return_record(result[p].value)]
       \/ /\ result[p].value = <<>>
          /\ result' = [result EXCEPT ![p] = except_get_records("StopIteration")]
       \/ /\ result[p].value # <<>>
          /\ result' = [result EXCEPT ![p] = except_get_records("RecordError")]
    /\ pc' = [pc EXCEPT ![p] = "idle"]
    /\ UNCHANGED <<dirExists, fs, sys_id, marc21, woff, firstReturned, file_exists>>

\* The caller uses the bytes without decoding them.
Finish(p) ==
    /\ pc[p] = "returned"
    /\ pc' = [pc EXCEPT ![p] = "idle"]
    /\ UNCHANGED <<dirExists, fs, sys_id, marc21, woff, result, firstReturned,
                   file_exists>>

-----------------------------------------------------------------------------
(* The decoded record and the field extractors *)

\* A decoded record is the sequence of its fields in record order.  A field
\* is its tag and its subfields: code -> the value field[code] yields, which
\* is the value of the first subfield with that code.  Values are strings,
\* written as sequences of characters.

None == [none |-> TRUE]
Some(v) == [none |-> FALSE, val |-> v]

\* `records.get_fields(tag)`
get_fields(records, tag) == SelectSeq(records, LAMBDA f : f.tag = tag)

\* `code in field`
has(field, code) == code \in DOMAIN field.sub

\* `field[code]`: None when the field has no such subfield
subfield(field, code) ==
    IF has(field, code) THEN Some(field.sub[code]) ELSE None

\* `s.startswith(old)`
starts_with(s, old) ==
    /\ Len(old) <= Len(s)
    /\ SubSeq(s, 1, Len(old)) = old

\* A bug: only a trailing occurrence of old is replaced.
replace_trailing(s, old, new) ==
    IF Len(old) <= Len(s) /\ SubSeq(s, Len(s) - Len(old) + 1, Len(s)) = old
    THEN SubSeq(s, 1, Len(s) - Len(old)) \o new
    ELSE s

\* `s.replace(old, new)` for a non-empty old: every occurrence, left to right
RECURSIVE str_replace(_, _, _)
str_replace(s, old, new) ==
    IF s = <<>> THEN <<>>
    ELSE IF starts_with(s, old)
         THEN new \o str_replace(SubSeq(s, Len(old) + 1, Len(s)), old, new)
         ELSE <<Head(s)>> \o str_replace(Tail(s), old, new)

no_GND == <<"n", "o", "_", "G", "N", "D">>

__check_for_gnd(marcField, GNDIndex) ==
    LET date == IF ~subfield(marcField, "d").none
                THEN subfield(marcField, "d").val
                ELSE <<>>
        GND  == IF subfield(marcField, GNDIndex).none
                THEN no_GND
                ELSE str_replace(subfield(marcField, GNDIndex).val, <<",">>, <<>>)
        role == IF ~subfield(marcField, "4").none
                THEN subfield(marcField, "4").val
                ELSE <<>>
    IN  [GND |-> GND, name |-> subfield(marcField, "a"), date |-> date,
         role |-> role]

\* `for field in fields: acc.append(__check_for_gnd(field, '0'))`
RECURSIVE append_persons(_, _)
append_persons(fields, acc) ==
    IF fields = <<>> THEN acc
    ELSE append_persons(Tail(fields),
                        Append(acc, __check_for_gnd(Head(fields), "0")))

\* `for field in fields: person = ...; if person['role'] == role: acc.append(person)`
RECURSIVE append_persons_with_role(_, _, _)
append_persons_with_role(fields, role, acc) ==
    IF fields = <<>> THEN acc
    ELSE LET person == __check_for_gnd(Head(fields), "0")
         IN  append_persons_with_role(Tail(fields), role,
                 IF person.role = role THEN Append(acc, person) ELSE acc)

aut == <<"a", "u", "t">>
rcp == <<"r", "c", "p">>

\* A bug: every tag-700 person is appended, whatever the role.
get_author_any_role(records) ==
    append_persons(get_fields(records, "700"),
                   append_persons(get_fields(records, "100"), <<>>))

get_author(records) ==
    append_persons_with_role(get_fields(records, "700"), aut,
                             append_persons(get_fields(records, "100"), <<>>))

get_recipient(records) ==
    append_persons_with_role(get_fields(records, "700"), rcp, <<>>)

get_mentioned_persons(records) ==
    append_persons(get_fields(records, "600"), <<>>)

\* `for field in fields: acc = field[code]`
RECURSIVE scan_last(_, _, _)
scan_last(fields, code, acc) ==
    IF fields = <<>> THEN acc
    ELSE scan_last(Tail(fields), code, subfield(Head(fields), code))

\* A bug: the scan keeps the first value it finds.
RECURSIVE scan_first_present(_, _, _)
scan_first_present(fields, code, acc) ==
    IF fields = <<>> THEN acc
    ELSE scan_first_present(Tail(fields), code,
             IF has(Head(fields), code) /\ acc.none
             THEN subfield(Head(fields), code)
             ELSE acc)

\* `for field in fields: if code in field: acc = field[code]`
RECURSIVE scan_if_present(_, _, _)
scan_if_present(fields, code, acc) ==
    IF fields = <<>> THEN acc
    ELSE scan_if_present(Tail(fields), code,
             IF has(Head(fields), code) THEN subfield(Head(fields), code)
             ELSE acc)

get_date(records) == scan_last(get_fields(records, "046"), "c", None)

get_creation_form(records) ==
    scan_if_present(get_fields(records, "250"), "a", None)

get_footnote(records) ==
    scan_if_present(get_fields(records, "500"), "a", None)

get_content_info(records) ==
    scan_if_present(get_fields(records, "520"), "a", None)

get_accompanying_material(records) ==
    scan_if_present(get_fields(records, "525"), "a", None)

get_language(records) ==
    scan_if_present(get_fields(records, "546"), "a", None)

get_bernoulli_work_reference(records) ==
    scan_if_present(get_fields(records, "596"), "a", None)

get_emanuscript_link(records) ==
    scan_if_present(get_fields(records, "856"), "u", None)

\* `if code in field: acc = {key: field[code]}`
assign(acc, field, code, key) ==
    IF has(field, code)
    THEN Some([k \in {key} |-> field.sub[code]])
    ELSE acc

\* `if code in field: if acc is not None: acc.update({key: field[code]})
\*                    else: acc = {key: field[code]}`
update(acc, field, code, key) ==
    IF has(field, code)
    THEN IF ~acc.none
         THEN Some([k \in DOMAIN acc.val \cup {key} |->
                      IF k = key THEN field.sub[code] ELSE acc.val[k]])
         ELSE Some([k \in {key} |-> field.sub[code]])
    ELSE acc

\* The body of a composite extractor's loop: the first (code, key) pair is
\* assigned, the others are merged, in the order the code tests them.
RECURSIVE update_all(_, _, _)
update_all(acc, field, pairs) ==
    IF pairs = <<>> THEN acc
    ELSE update_all(update(acc, field, Head(pairs)[1], Head(pairs)[2]),
                    field, Tail(pairs))

loop_body(acc, field, pairs) ==
    update_all(assign(acc, field, Head(pairs)[1], Head(pairs)[2]),
               field, Tail(pairs))

RECURSIVE scan_composite(_, _, _)
scan_composite(fields, pairs, acc) ==
    IF fields = <<>> THEN acc
    ELSE scan_composite(Tail(fields), pairs,
                        loop_body(acc, Head(fields), pairs))

description_keys == << <<"a", "title">>, <<"c", "author">> >>
creation_place_keys == << <<"a", "place">>, <<"0", "gnd">> >>
physical_description_keys == << <<"a", "amount">>, <<"c", "format">> >>
bibliographical_info_keys == << <<"a", "reference">>, <<"i", "type">> >>
reproduction_info_keys ==
    << <<"a", "type">>, <<"b", "place">>, <<"c", "institution">>,
       <<"d", "year">>, <<"n", "additional">> >>

get_description(records) ==
    scan_composite(get_fields(records, "245"), description_keys, None)

get_creation_place(records) ==
    scan_composite(get_fields(records, "751"), creation_place_keys, None)

get_physical_description(records) ==
    scan_composite(get_fields(records, "300"), physical_description_keys, None)

get_bibliographical_info(records) ==
    scan_composite(get_fields(records, "510"), bibliographical_info_keys, None)

get_reproduction_info(records) ==
    scan_composite(get_fields(records, "533"), reproduction_info_keys, None)

\* One application of an extractor to the decoded record.
Extract(name, value) ==
    /\ out' = [of |-> name, val |-> value]
    /\ rec' = rec
    /\ UNCHANGED cacheVars

GetAuthor == Extract("get_author", get_author(rec))
GetRecipient == Extract("get_recipient", get_recipient(rec))
GetMentionedPersons == Extract("get_mentioned_persons", get_mentioned_persons(rec))
GetDate == Extract("get_date", get_date(rec))
GetDescription == Extract("get_description", get_description(rec))
GetCreationForm == Extract("get_creation_form", get_creation_form(rec))
GetCreationPlace == Extract("get_creation_place", get_creation_place(rec))
GetPhysicalDescription ==
    Extract("get_physical_description", get_physical_description(rec))
GetFootnote == Extract("get_footnote", get_footnote(rec))
GetBibliographicalInfo ==
    Extract("get_bibliographical_info", get_bibliographical_info(rec))
GetContentInfo == Extract("get_content_info", get_content_info(rec))
GetAccompanyingMaterial ==
    Extract("get_accompanying_material", get_accompanying_material(rec))
GetReproductionInfo ==
    Extract("get_reproduction_info", get_reproduction_info(rec))
GetLanguage == Extract("get_language", get_language(rec))
GetBernoulliWorkReference ==
    Extract("get_bernoulli_work_reference", get_bernoulli_work_reference(rec))
GetEmanuscriptLink == Extract("get_emanuscript_link", get_emanuscript_link(rec))

InitCache ==
    /\ dirExists \in BOOLEAN
    /\ fs = [x \in {} |-> <<>>]
    /\ pc = [p \in Procs |-> "idle"]
    /\ sys_id = [p \in Procs |-> "000123456"]
    /\ marc21 = [p \in Procs |-> <<>>]
    /\ file_exists = [p \in Procs |-> FALSE]
    /\ woff = [p \in Procs |-> 0]
    /\ result = [p \in Procs |-> NoResult]
    /\ firstReturned = [x \in {} |-> <<>>]

InitNoRecord ==
    /\ rec = <<>>
    /\ out = [of |-> "none"]

\* One invocation at a time: the single-threaded execution of the program.
Init == InitCache /\ InitNoRecord

\* No other invocation is in progress.
Alone(p) == \A q \in Procs \ {p} : pc[q] = "idle"

Next ==
    \/ \E p \in Procs, i \in Ids : Alone(p) /\ Call(p, i) /\ UNCHANGED extractVars
    \/ \E p \in Procs : Alone(p) /\ Exists(p) /\ UNCHANGED extractVars
    \/ \E p \in Procs : Alone(p) /\ Makedirs(p) /\ UNCHANGED extractVars
    \/ \E p \in Procs : Alone(p) /\ Isfile(p) /\ UNCHANGED extractVars
    \/ \E p \in Procs : Alone(p) /\ OpenRb(p) /\ UNCHANGED extractVars
    \/ \E p \in Procs : Alone(p) /\ Read(p) /\ UNCHANGED extractVars
    \/ \E p \in Procs : Alone(p) /\ CloseRb(p) /\ UNCHANGED extractVars
    \/ \E p \in Procs : Alone(p) /\ Connect(p) /\ UNCHANGED extractVars
    \/ \E p \in Procs : Alone(p) /\ Search(p) /\ UNCHANGED extractVars
    \/ \E p \in Procs : Alone(p) /\ OpenW(p) /\ UNCHANGED extractVars
    \/ \E p \in Procs : Alone(p) /\ Write(p) /\ UNCHANGED extractVars
    \/ \E p \in Procs : Alone(p) /\ CloseW(p) /\ UNCHANGED extractVars
    \/ \E p \in Procs : Alone(p) /\ Return(p) /\ UNCHANGED extractVars
    \/ \E p \in Procs : Alone(p) /\ GetRecords(p) /\ UNCHANGED extractVars
    \/ \E p \in Procs : Alone(p) /\ Finish(p) /\ UNCHANGED extractVars

Spec == Init /\ [][Next]_vars

\* Two invocations interleaving at every file-system step.
NextConc ==
    \/ \E p \in Procs, i \in Ids : Call(p, i) /\ UNCHANGED extractVars
    \/ \E p \in Procs : Exists(p) /\ UNCHANGED extractVars
    \/ \E p \in Procs : Makedirs(p) /\ UNCHANGED extractVars
    \/ \E p \in Procs : Isfile(p) /\ UNCHANGED extractVars
    \/ \E p \in Procs : OpenRb(p) /\ UNCHANGED extractVars
    \/ \E p \in Procs : Read(p) /\ UNCHANGED extractVars
    \/ \E p \in Procs : CloseRb(p) /\ UNCHANGED extractVars
    \/ \E p \in Procs : Connect(p) /\ UNCHANGED extractVars
    \/ \E p \in Procs : Search(p) /\ UNCHANGED extractVars
    \/ \E p \in Procs : OpenW(p) /\ UNCHANGED extractVars
    \/ \E p \in Procs : Write(p) /\ UNCHANGED extractVars
    \/ \E p \in Procs : CloseW(p) /\ UNCHANGED extractVars
    \/ \E p \in Procs : Return(p) /\ UNCHANGED extractVars
    \/ \E p \in Procs : GetRecords(p) /\ UNCHANGED extractVars
    \/ \E p \in Procs : Finish(p) /\ UNCHANGED extractVars

SpecConc == Init /\ [][NextConc]_vars

-----------------------------------------------------------------------------
(* The extractors applied to bounded decoded records *)

MaxOcc == 3         \* fields per record, extractors of one subfield
MaxOccWide == 2     \* fields per record, extractors of several subfields

X == <<"X">>
Y == <<"Y">>

PartialMaps(codes, vals) == UNION {[D -> vals] : D \in SUBSET codes}

SeqsUpTo(S, n) == UNION {[1..k -> S] : k \in 0..n}

FieldsOf(tag, codes, vals) ==
    {[tag |-> tag, sub |-> m] : m \in PartialMaps(codes, vals)}

\* A field no extractor reads.
OtherField == [tag |-> "999", sub |-> [c \in {"a"} |-> X]]

Codes(pairs) == {pairs[k][1] : k \in 1..Len(pairs)}

ScalarTags ==
    { <<"046", "c">>, <<"250", "a">>, <<"500", "a">>, <<"520", "a">>,
      <<"525", "a">>, <<"546", "a">>, <<"596", "a">>, <<"856", "u">> }

CompositeTags ==
    { <<"245", description_keys>>, <<"751", creation_place_keys>>,
      <<"300", physical_description_keys>>,
      <<"510", bibliographical_info_keys>>,
      <<"533", reproduction_info_keys>> }

\* Personal-name fields: the role, and the other subfields together.
Roles == {aut, rcp, <<"e", "d", "t">>}

PersonDetails ==
    { [c \in {} |-> X],
      [c \in {"a"} |-> <<"B", ",", "J">>],
      [c \in {"a", "d", "0"} |->
          CASE c = "a" -> <<"B", ",", "J">>
            [] c = "d" -> <<"1", "6", "5", "4">>
            [] c = "0" -> <<"1", "2", ",">>],
      [c \in {"d", "0"} |->
          CASE c = "d" -> <<"1", "7">>
            [] c = "0" -> <<",", "1", ",", ",", "2">>] }

WithRole(m, r) == [c \in DOMAIN m \cup {"4"} |-> IF c = "4" THEN r ELSE m[c]]

PersonFields ==
    {[tag |-> t, sub |-> m] : t \in {"100", "700", "600"}, m \in PersonDetails}
    \cup {[tag |-> t, sub |-> WithRole(m, r)] :
             t \in {"100", "700", "600"}, m \in PersonDetails, r \in Roles}

InitIdle ==
    /\ dirExists = FALSE
    /\ fs = [x \in {} |-> <<>>]
    /\ pc = [p \in Procs |-> "idle"]
    /\ sys_id = [p \in Procs |-> "000123456"]
    /\ marc21 = [p \in Procs |-> <<>>]
    /\ file_exists = [p \in Procs |-> FALSE]
    /\ woff = [p \in Procs |-> 0]
    /\ result = [p \in Procs |-> NoResult]
    /\ firstReturned = [x \in {} |-> <<>>]
    /\ out = [of |-> "none"]

InitScalar ==
    /\ InitIdle
    /\ \E t \in ScalarTags :
          rec \in SeqsUpTo(FieldsOf(t[1], {t[2]}, {X, Y}) \cup {OtherField},
                           MaxOcc)

NextScalar ==
    \/ GetDate \/ GetCreationForm \/ GetFootnote \/ GetContentInfo
    \/ GetAccompanyingMaterial \/ GetLanguage \/ GetBernoulliWorkReference
    \/ GetEmanuscriptLink

SpecScalar == InitScalar /\ [][NextScalar]_vars

InitComposite ==
    /\ InitIdle
    /\ \E t \in CompositeTags :
          rec \in SeqsUpTo(FieldsOf(t[1], Codes(t[2]), {X, Y}) \cup {OtherField},
                           MaxOccWide)

NextComposite ==
    \/ GetDescription \/ GetCreationPlace \/ GetPhysicalDescription
    \/ GetBibliographicalInfo \/ GetReproductionInfo

SpecComposite == InitComposite /\ [][NextComposite]_vars

InitPerson ==
    /\ InitIdle
    /\ rec \in SeqsUpTo(PersonFields, MaxOccWide)

NextPerson == GetAuthor \/ GetRecipient \/ GetMentionedPersons

SpecPerson == InitPerson /\ [][NextPerson]_vars

-----------------------------------------------------------------------------
(* Properties of the cache *)

Quiescent == \A p \in Procs : pc[p] = "idle"

\* The bytes the remote catalog serves for an identifier it knows.
Served(i) == Catalog(i)[1]

\* C1: once get_marc21(id) has returned normally, no later step changes the
\* cache file of id, no later call for id reaches the remote catalog (it
\* neither connects nor searches, so it cannot fail on the remote), and
\* every later normal return for id carries the bytes of the first one.
C1_CacheHitIsStable ==
    [][\A i \in DOMAIN firstReturned :
          /\ file_path(i) \in DOMAIN fs
          /\ fs'[file_path(i)] = fs[file_path(i)]
          /\ \A p \in Procs :
                sys_id'[p] = i =>
                   /\ pc'[p] \notin {"connect", "search", "open_w", "write", "close_w"}
                   /\ (pc[p] = "return" /\ pc'[p] = "returned")
                         => result'[p] = return_marc21(firstReturned[i])
                   /\ (result'[p] # result[p] /\ result'[p].kind = "exit"
                          /\ result'[p].in = "get_marc21")
                         => result'[p].exc = "IOError"]_vars

\* C1 witness: a call that missed the cache and wrote the file has returned,
\* and a later call for the same identifier has returned the same bytes
\* from the cache.
C1_Witness ==
    \E p, q \in Procs :
        /\ p # q
        /\ sys_id[p] = sys_id[q]
        /\ pc[q] = "idle" /\ result[q].kind = "return" /\ ~file_exists[q]
        /\ pc[p] = "returned" /\ file_exists[p]
        /\ result[p].value = result[q].value
        /\ result[p].value = Served(sys_id[p])

\* C2: when get_marc21(id) is at its return statement, or has returned,
\* after a cache miss, marc_cache/<id>.marc exists and holds exactly the
\* first result of the remote catalog, which is the value returned.
C2_MissPersistsBeforeReturn ==
    \A p \in Procs :
        (pc[p] \in {"return", "returned"} /\ ~file_exists[p]) =>
            /\ file_path(sys_id[p]) \in DOMAIN fs
            /\ fs[file_path(sys_id[p])] = Catalog(sys_id[p])[1]
            /\ marc21[p] = Catalog(sys_id[p])[1]
            /\ pc[p] = "returned" =>
                   result[p] = [kind |-> "return", value |-> Catalog(sys_id[p])[1]]

\* C2 witness: a cache miss has returned the first of two remote results, a
\* record that contains a line feed.
C2_Witness ==
    \E p \in Procs :
        /\ pc[p] = "returned" /\ ~file_exists[p]
        /\ Len(Catalog(sys_id[p])) > 1
        /\ result[p].value = <<48, 10>>
        /\ fs[file_path(sys_id[p])] = <<48, 10>>

\* C3: a call in which an exception was raised has ended the process at
\* once, with exit status 1 when get_marc21 raised and 2 when get_records
\* raised, and has handed no value to its caller; a call that handed a value
\* to its caller raised nothing.
C3_FailuresExit ==
    \A p \in Procs :
        /\ "exc" \in DOMAIN result[p] =>
              /\ pc[p] = "idle"
              /\ result[p].kind = "exit"
              /\ "value" \notin DOMAIN result[p]
              /\ result[p].in \in {"get_marc21", "get_records"}
              /\ result[p].in = "get_marc21" => result[p].status = 1
              /\ result[p].in = "get_records" => result[p].status = 2
              /\ result[p].status # 0
        /\ result[p].kind \in {"return", "record"} => "exc" \notin DOMAIN result[p]
        /\ result[p].kind = "exit" => "exc" \in DOMAIN result[p]

\* C3 witness: one process was ended by get_marc21 on an empty remote
\* result, another by get_records.
C3_Witness ==
    \E p, q \in Procs :
        /\ result[p] = except_get_marc21("IndexError")
        /\ result[q].kind = "exit" /\ result[q].in = "get_records"
        /\ result[q].status = 2

\* C9: between calls, a cache file exists only if it holds exactly the bytes
\* the remote catalog serves for its identifier.
C9_CacheHoldsOnlyRemoteBytes ==
    Quiescent =>
        \A i \in Ids :
            file_path(i) \in DOMAIN fs =>
                /\ Catalog(i) # <<>>
                /\ fs[file_path(i)] = Served(i)

\* C10: with two invocations interleaving at the file-system steps, every
\* invocation that returns normally returns the bytes the remote catalog
\* serves for its identifier.
C10_InterleavedReturnsRemoteBytes ==
    \A p \in Procs :
        pc[p] = "returned" =>
            /\ Catalog(sys_id[p]) # <<>>
            /\ result[p].value = Served(sys_id[p])

-----------------------------------------------------------------------------
(* Properties of the extractors *)

ScalarExtractors ==
    { <<"get_date", "046", "c">>, <<"get_creation_form", "250", "a">>,
      <<"get_footnote", "500", "a">>, <<"get_content_info", "520", "a">>,
      <<"get_accompanying_material", "525", "a">>,
      <<"get_language", "546", "a">>,
      <<"get_bernoulli_work_reference", "596", "a">>,
      <<"get_emanuscript_link", "856", "u">> }

CompositeExtractors ==
    { <<"get_description", "245", description_keys>>,
      <<"get_creation_place", "751", creation_place_keys>>,
      <<"get_physical_description", "300", physical_description_keys>>,
      <<"get_bibliographical_info", "510", bibliographical_info_keys>>,
      <<"get_reproduction_info", "533", reproduction_info_keys>> }

SetMax(S) == CHOOSE m \in S : \A k \in S : k <= m

\* The positions in the record of the occurrences of a tag, and of those
\* that carry a subfield.
Occurrences(records, tag) == {k \in 1..Len(records) : records[k].tag = tag}

Carrying(records, tag, code) ==
    {k \in Occurrences(records, tag) : code \in DOMAIN records[k].sub}

\* The subfield of the last occurrence of the tag, every occurrence carrying it.
LastOccurrenceValue(records, tag, code) ==
    IF Occurrences(records, tag) = {} THEN None
    ELSE Some(records[SetMax(Occurrences(records, tag))].sub[code])

\* The subfield of the last occurrence of the tag that carries it.
LastCarryingValue(records, tag, code) ==
    IF Carrying(records, tag, code) = {} THEN None
    ELSE Some(records[SetMax(Carrying(records, tag, code))].sub[code])

\* C4: for each scalar extractor, when every occurrence of its tag carries
\* the subfield, the result is the subfield of the last occurrence, and
\* null when the tag does not occur.
C4_ScalarLastWins ==
    \A e \in ScalarExtractors :
        (out.of = e[1] /\ Carrying(rec, e[2], e[3]) = Occurrences(rec, e[2])) =>
            out.val = LastOccurrenceValue(rec, e[2], e[3])

\* C4 witness: get_date on a record whose tag 046 occurs at least twice,
\* always with subfield c, the first and the last value differing.
C4_Witness ==
    /\ out.of = "get_date"
    /\ Carrying(rec, "046", "c") = Occurrences(rec, "046")
    /\ Cardinality(Occurrences(rec, "046")) >= 2
    /\ LET first == CHOOSE k \in Occurrences(rec, "046") :
                        \A j \in Occurrences(rec, "046") : k <= j
           last  == SetMax(Occurrences(rec, "046"))
       IN  /\ rec[first].sub["c"] # rec[last].sub["c"]
           /\ out.val = Some(rec[last].sub["c"])

\* C8: every scalar extractor returns the subfield of the last occurrence
\* that carries it (null if none does); get_date computes what get_footnote
\* computes on the record with 046 c renamed to 500 a.
Renamed(records) ==
    [k \in 1..Len(records) |->
        IF records[k].tag = "046"
        THEN [tag |-> "500",
              sub |-> IF "c" \in DOMAIN records[k].sub
                      THEN [c \in {"a"} |-> records[k].sub["c"]]
                      ELSE [c \in {} |-> <<>>]]
        ELSE [tag |-> "999", sub |-> records[k].sub]]

C8_ScalarsShareOnePolicy ==
    /\ \A e \in ScalarExtractors :
          out.of = e[1] => out.val = LastCarryingValue(rec, e[2], e[3])
    /\ out.of = "get_date" => out.val = get_footnote(Renamed(rec))

\* The mapping a composite extractor is to accumulate: an attribute for
\* every mapped code some occurrence carries, with the value of the last
\* occurrence carrying that code; null when no occurrence carries any.
ExpectedMapping(records, tag, pairs) ==
    LET carried == {j \in 1..Len(pairs) :
                        Carrying(records, tag, pairs[j][1]) # {}}
        CodeOf(key) == pairs[CHOOSE j \in carried : pairs[j][2] = key][1]
    IN  IF carried = {} THEN None
        ELSE Some([key \in {pairs[j][2] : j \in carried} |->
                     records[SetMax(Carrying(records, tag, CodeOf(key)))]
                        .sub[CodeOf(key)]])

\* C5: each composite extractor returns the accumulated mapping of all the
\* occurrences of its tag.
C5_CompositeAccumulates ==
    \A e \in CompositeExtractors :
        out.of = e[1] => out.val = ExpectedMapping(rec, e[2], e[3])

HasSub(field, code, value) ==
    code \in DOMAIN field.sub /\ field.sub[code] = value

\* The string without its commas.
WithoutCommas(s) == SelectSeq(s, LAMBDA ch : ch # ",")

PersonOf(field, person) ==
    /\ person.GND = IF "0" \in DOMAIN field.sub
                    THEN WithoutCommas(field.sub["0"])
                    ELSE <<"n", "o", "_", "G", "N", "D">>
    /\ "0" \notin DOMAIN field.sub => person.GND # <<>>
    /\ person.date = IF "d" \in DOMAIN field.sub THEN field.sub["d"] ELSE <<>>
    /\ person.role = IF "4" \in DOMAIN field.sub THEN field.sub["4"] ELSE <<>>
    /\ person.name = IF "a" \in DOMAIN field.sub THEN Some(field.sub["a"]) ELSE None

Tagged(records, tag) == SelectSeq(records, LAMBDA f : f.tag = tag)

HasRole(field, role) == HasSub(field, "4", role)

Persons(fields) == [k \in 1..Len(fields) |-> __check_for_gnd(fields[k], "0")]

\* C7: get_author is the Persons of the tag-100 occurrences followed by
\* those of the tag-700 occurrences with role "aut", get_recipient those of
\* the tag-700 occurrences with role "rcp"; a tag-700 occurrence is in the
\* author list only with role "aut", in the recipient list only with role
\* "rcp", and never in both.
C7_AuthorsAndRecipients ==
    /\ out.of = "get_author" =>
          out.val = Persons(Tagged(rec, "100"))
                    \o Persons(SelectSeq(Tagged(rec, "700"),
                                         LAMBDA f : HasRole(f, <<"a", "u", "t">>)))
    /\ out.of = "get_recipient" =>
          out.val = Persons(SelectSeq(Tagged(rec, "700"),
                                      LAMBDA f : HasRole(f, <<"r", "c", "p">>)))
    /\ \A k \in 1..Len(rec) :
          rec[k].tag = "700" =>
             /\ get_author(<<rec[k]>>) # <<>> <=> HasRole(rec[k], <<"a", "u", "t">>)
             /\ get_recipient(<<rec[k]>>) # <<>> <=> HasRole(rec[k], <<"r", "c", "p">>)
             /\ ~(get_author(<<rec[k]>>) # <<>> /\ get_recipient(<<rec[k]>>) # <<>>)

\* C7 witness: of two tag-700 occurrences, an editor and then an author,
\* only the author is in the author list.
C7_Witness ==
    /\ out.of = "get_author"
    /\ Len(rec) = 2
    /\ rec[1].tag = "700" /\ HasRole(rec[1], <<"e", "d", "t">>)
    /\ rec[2].tag = "700" /\ HasRole(rec[2], aut)
    /\ out.val = <<__check_for_gnd(rec[2], "0")>>

=============================================================================
